---------------------------- MODULE Spec2Model ----------------------------
(***************************************************************************)
(* swift-syntax-tblgen: the generator of the Syntax node classes, and the  *)
(* behaviour of the classes it generates.                                  *)
(*                                                                         *)
(* The generator is modelled on a schema of TableGen records.  What it     *)
(* prints is kept structured (one record per printed declaration or        *)
(* statement, holding the strings the code splices in), so that the        *)
(* generated getters, updaters, constructors and makeBlank() can be        *)
(* executed on raw trees.                                                  *)
(***************************************************************************)
EXTENDS Naturals, Sequences, FiniteSets, TLC

VARIABLES
  pc,         \* where the generator process is: start, main, tblgen, nodes, exit
  Action,     \* options::Action
  Category,   \* options::Category
  OS,         \* the output stream of the current run
  errs,       \* llvm::errs() of the current run
  exitCode,   \* the result of main
  todo,       \* the records the printSyntax* loop still has to visit
  Out,        \* per action, the document the last successful run left behind
  Def,        \* the record handed to getSyntaxCategory
  resolved,   \* the results of the calls of getSyntaxCategory on Def
  prog,       \* the generated classes the program is built from
  heap,       \* the SyntaxData objects of the generated program
  op,         \* the last call of a generated factory or updater
  thr         \* the threads calling generated getters

genVars == <<pc, Action, Category, OS, errs, exitCode, todo, Out>>
catVars == <<Def, resolved>>
dataVars == <<prog, heap, op, thr>>
vars == <<pc, Action, Category, OS, errs, exitCode, todo, Out,
              Def, resolved, prog, heap, op, thr>>

-----------------------------------------------------------------------------
(* The schema: the records TableGen hands to SyntaxTableGenMain.           *)
(* SuperClasses is in the order of Record::getSuperClasses(): every class  *)
(* after its own superclasses, the direct superclass last (the code takes  *)
(* getSuperClasses().back() as the superclass).                            *)

Val(name, type, value) == [Name |-> name, Type |-> type, Value |-> value]

Rec(name, supers, values) ==
  [Name |-> name, SuperClasses |-> supers, Values |-> values]

TokenRec(name, supers, kind, spelling) ==
  Rec(name, supers, << Val("Kind", "string", kind),
                       Val("Spelling", "string", spelling) >>)

\* A field declared with a Layout: Value names the def of the Layout's Node.
LayoutVal(name, node) == Val(name, "Layout", node)

ClassNames ==
  {"Syntax", "Decl", "Stmt", "Expr", "Type", "Pattern", "Token",
   "SyntaxCollection", "Identifier", "Layout"}

\* The defs, in the order of RecordKeeper::getDefs() (by name).
Defs ==
  << Rec("AnyDecl", <<"Syntax", "Decl">>, << Val("NAME", "string", "AnyDecl") >>),
     Rec("AnyExpr", <<"Syntax", "Expr">>, << Val("NAME", "string", "AnyExpr") >>),
     Rec("AnyStmt", <<"Syntax", "Stmt">>, << Val("NAME", "string", "AnyStmt") >>),
     TokenRec("BreakKw", <<"Syntax", "Token">>, "kw_break", "break"),
     Rec("BreakStmt", <<"Syntax", "Stmt">>,
         << Val("NAME", "string", "BreakStmt"),
            LayoutVal("BreakKeyword", "BreakKw"),
            LayoutVal("Label", "IdentTok") >>),
     TokenRec("IdentTok", <<"Syntax", "Token", "Identifier">>, "identifier", ""),
     TokenRec("IfKw", <<"Syntax", "Token">>, "kw_if", "if"),
     Rec("IfStmt", <<"Syntax", "Stmt">>,
         << Val("NAME", "string", "IfStmt"),
            LayoutVal("IfKeyword", "IfKw"),
            LayoutVal("Condition", "AnyExpr"),
            Val("IsRequired", "bit", "1"),
            LayoutVal("Body", "AnyStmt") >>) >>

ClassRec(name) ==
  Rec(name,
      CASE name = "Syntax" -> <<>>
        [] name = "Layout" -> <<>>
        [] name = "Identifier" -> <<"Syntax", "Token">>
        [] OTHER -> <<"Syntax">>,
      <<>>)

DefNames == {Defs[i].Name : i \in 1..Len(Defs)}

\* AllRecords->getClass / getDef
AllRecords(name) ==
  IF name \in DefNames
  THEN Defs[CHOOSE i \in 1..Len(Defs) : Defs[i].Name = name]
  ELSE ClassRec(name)

isSubClassOf(R, ClassName) ==
  \E i \in 1..Len(R.SuperClasses) : R.SuperClasses[i] = ClassName

\* The record types: a class or a def names one; "string", "bit" do not.
IsRecordRecTy(Ty) == Ty \in ClassNames \cup DefNames


-----------------------------------------------------------------------------
(* Helpers *)

is(Ty, TypeName) ==
  /\ IsRecordRecTy(Ty)
  /\ (Ty = TypeName \/ isSubClassOf(AllRecords(Ty), TypeName))

isToken(Ty) == is(Ty, "Token")

isIdentifier(Ty) == is(Ty, "Identifier")

isLayout(Ty) == is(Ty, "Layout")

\* The def the Layout of a child names as its Node.
getLayoutNodeRecord(Child) == AllRecords(Child.Value)

\* The type of that DefInit: the record type of the def itself; its
\* getAsString() is the def's name.
getLayoutNodeType(Child) == getLayoutNodeRecord(Child).Name

\* SyntaxTableGenMain registers these seven classes.
SyntaxCategories ==
  {"Decl", "Stmt", "Expr", "Type", "Pattern", "Token", "SyntaxCollection"}

NoCategory == "None"

\* The first superclass, in getSuperClasses() order, that is registered.
getSyntaxCategory(D) ==
  LET hits == {i \in 1..Len(D.SuperClasses) :
                 D.SuperClasses[i] \in SyntaxCategories}
  IN IF hits = {} THEN NoCategory
     ELSE D.SuperClasses[CHOOSE i \in hits : \A j \in hits : i <= j]

getValueAsString(R, FieldName) ==
  LET hits == {i \in 1..Len(R.Values) : R.Values[i].Name = FieldName}
  IN IF hits = {} THEN "<no such field>"
     ELSE R.Values[CHOOSE i \in hits : \A j \in hits : i <= j].Value

getTokenSpelling(Value) ==
  LET TokenRecord == getLayoutNodeRecord(Value)
      hits == {i \in 1..Len(TokenRecord.Values) :
                 TokenRecord.Values[i].Name = "Spelling"}
  IN IF hits = {} THEN ""
     ELSE TokenRecord.Values[CHOOSE i \in hits : \A j \in hits : i <= j].Value

\* A StringSwitch with no Default: a category outside the table falls off.
getMissingSyntaxKind(Child) ==
  LET Node == getLayoutNodeRecord(Child)
      Cat  == getSyntaxCategory(Node)
  IN CASE Cat = "Decl" -> "MissingDecl"
       [] Cat = "Expr" -> "MissingExpr"
       [] Cat = "Stmt" -> "MissingStmt"
       [] Cat = "Type" -> "MissingType"
       [] Cat = "Pattern" -> "MissingPattern"
       [] Cat = "SyntaxCollection" -> "MissingSyntaxCollection"
       [] OTHER -> "<fell off the string switch>"

\* The switch on the category name with Decl as its default.
getCategoryDefaultDecl(Name) ==
  CASE Name = "Expr" -> "Expr"
    [] Name = "Stmt" -> "Stmt"
    [] Name = "Type" -> "Type"
    [] Name = "Pattern" -> "Pattern"
    [] Name = "SyntaxFactory" -> "SyntaxFactory"
    [] Name = "SyntaxRewriter" -> "SyntaxRewriter"
    [] OTHER -> "Decl"

getCategory(Name) ==
  CASE Name = "Decl" -> "Decl"
    [] Name = "Expr" -> "Expr"
    [] Name = "Stmt" -> "Stmt"
    [] Name = "Type" -> "Type"
    [] Name = "Pattern" -> "Pattern"
    [] Name = "SyntaxFactory" -> "SyntaxFactory"
    [] Name = "SyntaxRewriter" -> "SyntaxRewriter"
    [] OTHER -> "Unknown"

IsLayoutVal(Child) == isLayout(Child.Type)

getChildrenOf(Node) == SelectSeq(Node.Values, IsLayoutVal)

\* The assertion on a token with the spelling left out.
printTokenAssertionKindOnly(VariableName, Value) ==
  [Check |-> "assert_token_kind", Var |-> VariableName,
   Kind |-> getValueAsString(getLayoutNodeRecord(Value), "Kind"), Text |-> ""]

printTokenAssertion(VariableName, Value) ==
  LET Ty       == getLayoutNodeType(Value)
      TokenRecord == getLayoutNodeRecord(Value)
      Kind     == getValueAsString(TokenRecord, "Kind")
  IN IF isIdentifier(Ty)
     THEN [Check |-> "assert_token_kind", Var |-> VariableName,
           Kind |-> Kind, Text |-> ""]
     ELSE [Check |-> "syntax_assert_token_is", Var |-> VariableName,
           Kind |-> Kind, Text |-> getTokenSpelling(Value)]

\* Flattens a sequence of sequences.
RECURSIVE Flatten(_)
Flatten(ss) == IF ss = <<>> THEN <<>> ELSE Head(ss) \o Flatten(Tail(ss))

-----------------------------------------------------------------------------
(* Syntax: what the generator prints, one record per printed declaration.  *)
(* Node names the record a declaration was printed for.                    *)

\* The enumeration with an entry for every field of the record.
CursorEnumAllValues(Node) ==
  [i \in 1..Len(Node.Values) |-> Node.Values[i].Name]

\* The body of "enum class Cursor": one entry per child, in order.
CursorEnum(Node) ==
  LET Children == getChildrenOf(Node)
  IN [i \in 1..Len(Children) |-> Children[i].Name]

\* The two member declarations printed for one child.
InterfaceMembers(ClassName, Child) ==
  LET ChildType == Child.Type
      ChildTypeName0 == ChildType \o "Syntax"
      OptionalChildTypeName == "llvm::Optional<" \o ChildTypeName0 \o ">"
      ChildTypeName == IF ChildType = "Token"
                       THEN "RC<" \o ChildTypeName0 \o ">"
                       ELSE ChildTypeName0
  IN << [Member |-> "get", Owner |-> ClassName, Slot |-> Child.Name,
         Type |-> OptionalChildTypeName],
        [Member |-> "with", Owner |-> ClassName, Slot |-> Child.Name,
         Type |-> ChildTypeName] >>

printSyntaxInterface(Node) ==
  LET ClassName == Node.Name \o "Syntax"
      SuperclassName == Node.SuperClasses[Len(Node.SuperClasses)] \o "Syntax"
      DataClassName == ClassName \o "Data"
      Children == getChildrenOf(Node)
  IN [Item |-> "class", Node |-> Node.Name, ClassName |-> ClassName,
      Superclass |-> SuperclassName, DataType |-> DataClassName,
      Cursor |-> CursorEnum(Node),
      Members |-> Flatten([i \in 1..Len(Children) |->
                             InterfaceMembers(ClassName, Children[i])]),
      ClassOf |-> ClassName]

printSyntaxDataInterface(Node) ==
  LET ClassName == Node.Name \o "Syntax"
      DataClassName == ClassName \o "Data"
  IN [Item |-> "dataclass", Node |-> Node.Name, ClassName |-> DataClassName,
      Methods |-> <<DataClassName, "make", "makeBlank">>,
      ClassOf |-> Node.Name]

\* get<Child>() returning what the cache of the node's first child holds.
GetterReturnsFirstCache(ClassName, Child) ==
  LET ChildName == Child.Name
      ChildTypeName == getLayoutNodeType(Child)
  IN [Method |-> "get", Owner |-> ClassName, Slot |-> ChildName,
      Type |-> "llvm::Optional<" \o ChildTypeName \o ">",
      RawChildCursor |-> ChildName,
      UnsafeData |-> ClassName,
      ChildPtr |-> "Cached" \o ChildName,
      Realize |-> ChildTypeName,
      IndexCursor |-> ChildName,
      Construct |-> ClassName,
      ReturnCache |-> "Cached" \o getChildrenOf(AllRecords(ClassName))[1].Name]

\* get<Child>() as printed: the strings spliced into the body.
Getter(ClassName, Child) ==
  LET ChildName == Child.Name
      ChildTypeName == getLayoutNodeType(Child)
  IN [Method |-> "get", Owner |-> ClassName, Slot |-> ChildName,
      Type |-> "llvm::Optional<" \o ChildTypeName \o ">",
      RawChildCursor |-> ChildName,
      UnsafeData |-> ClassName,
      ChildPtr |-> "Cached" \o ChildName,
      Realize |-> ChildTypeName,
      IndexCursor |-> ChildName,
      Construct |-> ClassName,
      ReturnCache |-> "Cached" \o ChildName]

\* with<Child>() replacing the node's first child whatever the slot.
SetterFirstCursor(ClassName, Child) ==
  LET ChildName == Child.Name
      ChildType == getLayoutNodeType(Child)
      NewChildArg == "New" \o ChildName
  IN [Method |-> "with", Owner |-> ClassName, Slot |-> ChildName,
      Type |-> ChildType,
      Asserts |-> IF isToken(ChildType)
                  THEN <<printTokenAssertion(NewChildArg, Child)>>
                  ELSE <<>>,
      ReplaceChild |-> ClassName,
      ArgGetRaw |-> ~isToken(ChildType),
      ReplaceCursor |-> getChildrenOf(AllRecords(ClassName))[1].Name]

\* with<Child>() as printed.
Setter(ClassName, Child) ==
  LET ChildName == Child.Name
      ChildType == getLayoutNodeType(Child)
      NewChildArg == "New" \o ChildName
  IN [Method |-> "with", Owner |-> ClassName, Slot |-> ChildName,
      Type |-> ChildType,
      Asserts |-> IF isToken(ChildType)
                  THEN <<printTokenAssertion(NewChildArg, Child)>>
                  ELSE <<>>,
      ReplaceChild |-> ClassName,
      ArgGetRaw |-> ~isToken(ChildType),
      ReplaceCursor |-> ChildName]

printSyntaxImplementation(Node) ==
  LET ClassName == Node.Name
      Children == getChildrenOf(Node)
  IN [Item |-> "api", Node |-> Node.Name,
      Methods |-> Flatten([i \in 1..Len(Children) |->
                             << Getter(ClassName, Children[i]),
                                Setter(ClassName, Children[i]) >>])]

\* The assertion the constructor makes on one child.
ChildAssertion(Child) ==
  LET ChildName == Child.Name
      ChildType == getLayoutNodeType(Child)
  IN IF isToken(ChildType)
     THEN printTokenAssertion(ChildName, Child)
     ELSE [Check |-> "assert_child_kind", Var |-> ChildName,
           Kind |-> ChildType, Text |-> ""]

\* One element of the layout makeBlank() passes to RawSyntax::make.
BlankChild(Child) ==
  LET ChildType == getLayoutNodeType(Child)
      ChildRec == getLayoutNodeRecord(Child)
  IN IF isToken(ChildType)
     THEN [Make |-> "missingToken",
           Kind |-> getValueAsString(ChildRec, "Kind"),
           Text |-> getValueAsString(ChildRec, "Spelling")]
     ELSE [Make |-> "missing", Kind |-> getMissingSyntaxKind(Child),
           Text |-> ""]

printSyntaxDataImplementation(Node) ==
  LET ClassName == Node.Name
      SuperclassName == Node.SuperClasses[Len(Node.SuperClasses)]
      DataClassName == ClassName \o "Data"
      Children == getChildrenOf(Node)
  IN [Item |-> "data", Node |-> Node.Name, ClassName |-> DataClassName,
      Superclass |-> SuperclassName \o "Data",
      AssertKind |-> Node.Name,
      AssertLayoutSize |-> Len(getChildrenOf(Node)),
      ChildAsserts |-> [i \in 1..Len(Children) |-> ChildAssertion(Children[i])],
      BlankKind |-> Node.Name,
      BlankLayout |-> [i \in 1..Len(Children) |-> BlankChild(Children[i])],
      BlankPresence |-> "Present"]

\* AllRecords->getAllDerivedDefinitions(ClassName)
IsDerivedFromCategory(R) == isSubClassOf(R, Category)

getAllDerivedDefinitions == SelectSeq(Defs, IsDerivedFromCategory)

-----------------------------------------------------------------------------
(* The generator process: main, TableGenMain's call of SyntaxTableGenMain, *)
(* and the printSyntaxInterfaces / printSyntaxImplementations loop.        *)

ActionTypes == {"None", "GenImplementation", "GenInterface"}

\* The values tried for -category; the last two are not category names.
CategoryArgs ==
  {"Decl", "Expr", "Stmt", "Type", "Pattern", "SyntaxFactory",
   "SyntaxRewriter", "Bogus", ""}

NoDoc == [Category |-> "", Doc |-> <<>>]

\* No factory or updater has been called yet.
NoOp ==
  [Name |-> "none", Node |-> "", Recv |-> 0, Slot |-> "",
   Arg |-> [Kind |-> "<none>"], Result |-> 0, Failed |-> "",
   Pre |-> [Type |-> "<free>"]]

\* The process before it starts; nothing else exists.
Init ==
  /\ pc = "start"
  /\ Action = "None"
  /\ Category = ""
  /\ OS = <<>>
  /\ errs = <<>>
  /\ exitCode = 0
  /\ todo = <<>>
  /\ Out = [a \in {"GenImplementation", "GenInterface"} |-> NoDoc]
  /\ Def = Rec("Node", <<>>, <<>>)
  /\ resolved = <<>>
  /\ prog = <<>>
  /\ heap = <<>>
  /\ op = NoOp
  /\ thr = <<>>

\* A process starts: cl::ParseCommandLineOptions sets the options.
ParseCommandLineOptions ==
  /\ pc \in {"start", "exit"}
  /\ \E a \in ActionTypes, c \in CategoryArgs :
       /\ Action' = a
       /\ Category' = c
  /\ pc' = "main"
  /\ OS' = <<>>
  /\ errs' = <<>>
  /\ exitCode' = 0
  /\ todo' = <<>>
  /\ UNCHANGED <<Out, catVars, dataVars>>

\* main: the unknown-category check, then TableGenMain.
main ==
  /\ pc = "main"
  /\ IF getCategory(Category) = "Unknown"
     THEN /\ errs' = Append(errs, Category \o " is an unknown category!")
          /\ exitCode' = 1
          /\ pc' = "exit"
     ELSE /\ pc' = "tblgen"
          /\ UNCHANGED <<errs, exitCode>>
  /\ UNCHANGED <<Action, Category, OS, todo, Out, catVars, dataVars>>

TreeCategories == {"Decl", "Expr", "Stmt", "Type", "Pattern"}

\* SyntaxTableGenMain with genInterface / genImplementation: the switch on
\* the action, then on the category.  A true result makes TableGenMain
\* return 1 and drop the output; a false one keeps the document.
SyntaxTableGenMain ==
  /\ pc = "tblgen"
  /\ CASE Action = "None" ->
            /\ errs' = Append(errs, "action required")
            /\ exitCode' = 1
            /\ pc' = "exit"
            /\ UNCHANGED <<todo, Out>>
       [] Action # "None" /\ getCategory(Category) \in TreeCategories ->
            /\ todo' = getAllDerivedDefinitions
            /\ pc' = "nodes"
            /\ UNCHANGED <<errs, exitCode, Out>>
       [] Action # "None"
          /\ getCategory(Category) \in {"SyntaxFactory", "SyntaxRewriter"} ->
            /\ exitCode' = 0
            /\ pc' = "exit"
            /\ Out' = [Out EXCEPT ![Action] = [Category |-> Category, Doc |-> OS]]
            /\ UNCHANGED <<errs, todo>>
       [] OTHER ->
            /\ pc' = "unreachable"
            /\ UNCHANGED <<errs, exitCode, todo, Out>>
  /\ UNCHANGED <<Action, Category, OS, catVars, dataVars>>

\* What one turn of the loop prints for a record.
printNode(Node) ==
  IF Action = "GenInterface"
  THEN << printSyntaxInterface(Node), printSyntaxDataInterface(Node) >>
  ELSE << [Item |-> "pragma", Node |-> Node.Name, Mark |-> "API"],
          printSyntaxImplementation(Node),
          [Item |-> "pragma", Node |-> Node.Name, Mark |-> "Data"],
          printSyntaxDataImplementation(Node) >>

\* One turn of the loop over Nodes: Any<Category> is skipped.
printSyntaxNode ==
  /\ pc = "nodes"
  /\ todo # <<>>
  /\ LET Node == Head(todo)
         AnyName == "Any" \o Category
     IN OS' = IF Node.Name = AnyName THEN OS ELSE OS \o printNode(Node)
  /\ todo' = Tail(todo)
  /\ UNCHANGED <<pc, Action, Category, errs, exitCode, Out, catVars, dataVars>>

\* The loop is over: the printer returns false and the document is kept.
printSyntaxDone ==
  /\ pc = "nodes"
  /\ todo = <<>>
  /\ exitCode' = 0
  /\ pc' = "exit"
  /\ Out' = [Out EXCEPT ![Action] = [Category |-> Category, Doc |-> OS]]
  /\ UNCHANGED <<Action, Category, OS, errs, todo, catVars, dataVars>>

GenNext ==
  \/ ParseCommandLineOptions
  \/ main
  \/ SyntaxTableGenMain
  \/ printSyntaxNode
  \/ printSyntaxDone

-----------------------------------------------------------------------------
(* getSyntaxCategory applied to records of any ancestry.                   *)

MaxSupers == 3

MaxCalls == 2

\* The classes the ancestries are drawn from.
AncestryClasses == {"Syntax", "Decl", "Stmt", "Expr", "Token", "Identifier"}

\* The superclass lists of at most n classes, none twice (TableGen refuses
\* a class that is already a superclass).  The list <<c1, ..., cn>> is the
\* one getSuperClasses() gives for the chain
\*   class c1;  class c2 : c1;  ...  class cn : c(n-1);  def Node : cn;
\* so cn is the direct superclass and c1 the root.
RECURSIVE Ancestries(_)
Ancestries(n) ==
  IF n = 0 THEN {<<>>}
  ELSE LET Shorter == Ancestries(n - 1)
       IN Shorter \cup
          {Append(s, c) : s \in {x \in Shorter : Len(x) = n - 1},
                          c \in AncestryClasses}

NoRepeat(s) == \A i, j \in 1..Len(s) : i # j => s[i] # s[j]

\* A record of any ancestry; no generator process, no generated program.
CategoryInit ==
  /\ Def \in {Rec("Node", s, <<>>) : s \in {x \in Ancestries(MaxSupers) : NoRepeat(x)}}
  /\ resolved = <<>>
  /\ pc = "off"
  /\ Action = "None"
  /\ Category = ""
  /\ OS = <<>>
  /\ errs = <<>>
  /\ exitCode = 0
  /\ todo = <<>>
  /\ Out = [a \in {"GenImplementation", "GenInterface"} |-> NoDoc]
  /\ prog = <<>>
  /\ heap = <<>>
  /\ op = NoOp
  /\ thr = <<>>

\* One call of getSyntaxCategory(Def).
ResolveCategory ==
  /\ Len(resolved) < MaxCalls
  /\ resolved' = Append(resolved, getSyntaxCategory(Def))
  /\ UNCHANGED <<Def, genVars, dataVars>>

-----------------------------------------------------------------------------
(* Properties of the generator process.                                    *)

Spec == Init /\ [][GenNext]_vars

SpecCategory == CategoryInit /\ [][ResolveCategory]_vars

\* The category names the command surface accepts.
RecognizedCategoryNames ==
  {"Decl", "Expr", "Stmt", "Type", "Pattern", "SyntaxFactory", "SyntaxRewriter"}

\* A run is under way, or over, with an unrecognized category or no action.
ConfigurationError ==
  /\ pc \in {"main", "tblgen", "nodes", "exit", "unreachable"}
  /\ (Category \notin RecognizedCategoryNames \/ Action = "None")

\* C6: a run with an unrecognized category or with no action never appends to
\* the output document and never enters a generation step; an unrecognized
\* category never gets past main's own check; and the run ends with a
\* diagnostic and a nonzero result.
C6_ConfigurationErrorNoOutput ==
  ConfigurationError =>
    /\ OS = <<>>
    /\ pc \notin {"nodes", "unreachable"}
    /\ (Category \notin RecognizedCategoryNames => pc \in {"main", "exit"})
    /\ (pc = "exit" => exitCode # 0 /\ errs # <<>>)

\* A run with a recognized category and no action has ended in failure.
C6_Witness ==
  /\ pc = "exit"
  /\ Action = "None"
  /\ Category = "Stmt"
  /\ exitCode = 1
  /\ errs = <<"action required">>
  /\ OS = <<>>

InterfaceDoc == Out["GenInterface"].Doc

ImplementationDoc == Out["GenImplementation"].Doc

ChildNames(NodeName) ==
  LET Children == getChildrenOf(AllRecords(NodeName))
  IN [k \in 1..Len(Children) |-> Children[k].Name]

\* C7: in every document left behind, a node's Cursor enumeration lists its
\* resolved child slots in order, the constructor asserts that many
\* children and asserts on them in that order, makeBlank() lists that many
\* placeholders in that order, and the declaration and the definition of
\* one node agree on the count and the order.
C7_ArityAndOrderAgree ==
  /\ \A i \in 1..Len(InterfaceDoc) :
       InterfaceDoc[i].Item = "class" =>
         InterfaceDoc[i].Cursor = ChildNames(InterfaceDoc[i].Node)
  /\ \A j \in 1..Len(ImplementationDoc) :
       ImplementationDoc[j].Item = "data" =>
         LET d == ImplementationDoc[j]
             Children == getChildrenOf(AllRecords(d.Node))
         IN /\ d.AssertLayoutSize = Len(Children)
            /\ Len(d.ChildAsserts) = Len(Children)
            /\ Len(d.BlankLayout) = Len(Children)
            /\ \A k \in 1..Len(Children) :
                 /\ d.ChildAsserts[k].Var = Children[k].Name
                 /\ (d.BlankLayout[k].Make = "missingToken"
                       <=> isToken(getLayoutNodeType(Children[k])))
  /\ \A i \in 1..Len(InterfaceDoc), j \in 1..Len(ImplementationDoc) :
       ( /\ InterfaceDoc[i].Item = "class"
         /\ ImplementationDoc[j].Item = "data"
         /\ InterfaceDoc[i].Node = ImplementationDoc[j].Node )
       => /\ Len(InterfaceDoc[i].Cursor) = ImplementationDoc[j].AssertLayoutSize
          /\ \A k \in 1..Len(InterfaceDoc[i].Cursor) :
               InterfaceDoc[i].Cursor[k] = ImplementationDoc[j].ChildAsserts[k].Var

\* Both documents of the Stmt category have been generated.
C7_Witness ==
  /\ Out["GenInterface"].Category = "Stmt"
  /\ Out["GenImplementation"].Category = "Stmt"
  /\ \E i \in 1..Len(InterfaceDoc) :
       InterfaceDoc[i].Item = "class" /\ Len(InterfaceDoc[i].Cursor) = 3
  /\ \E j \in 1..Len(ImplementationDoc) :
       ImplementationDoc[j].Item = "data" /\ ImplementationDoc[j].AssertLayoutSize = 3

\* The members a document declares or defines, in order.
RECURSIVE DeclaredMembers(_)
DeclaredMembers(doc) ==
  IF doc = <<>> THEN <<>>
  ELSE (IF Head(doc).Item = "class" THEN Head(doc).Members ELSE <<>>)
       \o DeclaredMembers(Tail(doc))

RECURSIVE DefinedMembers(_)
DefinedMembers(doc) ==
  IF doc = <<>> THEN <<>>
  ELSE (IF Head(doc).Item = "api" THEN Head(doc).Methods ELSE <<>>)
       \o DefinedMembers(Tail(doc))

\* C10: when the declarations and the definitions of one category have both
\* been generated, the k-th declared member and the k-th defined member are
\* the same member: same accessor or updater, same owning type name, same
\* slot, same child or parameter type.
C10_DeclarationsMatchDefinitions ==
  ( /\ Out["GenInterface"].Category = Out["GenImplementation"].Category
    /\ Out["GenInterface"].Category \in TreeCategories )
  => LET decl == DeclaredMembers(InterfaceDoc)
         defn == DefinedMembers(ImplementationDoc)
     IN /\ Len(decl) = Len(defn)
        /\ \A k \in 1..Len(decl) :
             /\ decl[k].Member = defn[k].Method
             /\ decl[k].Slot = defn[k].Slot
             /\ decl[k].Owner = defn[k].Owner
             /\ decl[k].Type = defn[k].Type

\* The nearest registered ancestor: the last registered class of the list,
\* which ends with the direct superclass.
NearestRegisteredAncestor(D) ==
  LET hits == {i \in 1..Len(D.SuperClasses) :
                 D.SuperClasses[i] \in SyntaxCategories}
  IN IF hits = {} THEN NoCategory
     ELSE D.SuperClasses[CHOOSE i \in hits : \A j \in hits : i >= j]

\* C8: every call of getSyntaxCategory on a record returns the same
\* category, the nearest registered ancestor of the record, and none only
\* when no ancestor is registered.
C8_NearestRegisteredAncestor ==
  \A i \in 1..Len(resolved) :
    /\ resolved[i] = resolved[1]
    /\ resolved[i] = NearestRegisteredAncestor(Def)
    /\ (resolved[i] = NoCategory
          <=> \A k \in 1..Len(Def.SuperClasses) :
                Def.SuperClasses[k] \notin SyntaxCategories)

-----------------------------------------------------------------------------
(* The generated program: raw trees, SyntaxData objects, and the generated *)
(* constructor, make, makeBlank, with<Child> and get<Child> run on them.   *)

\* RawSyntax: a kind, a presence, a layout; a token also has a token kind
\* and a text.
RawSyntax_make(Kind, Layout, Presence) ==
  [Kind |-> Kind, Presence |-> Presence, Layout |-> Layout,
   TokenKind |-> "", Text |-> ""]

RawSyntax_missing(Kind) == RawSyntax_make(Kind, <<>>, "Missing")

TokenSyntax_make(TokenKind, Text, Presence) ==
  [Kind |-> "Token", Presence |-> Presence, Layout |-> <<>>,
   TokenKind |-> TokenKind, Text |-> Text]

TokenSyntax_missingToken(TokenKind, Text) ==
  TokenSyntax_make(TokenKind, Text, "Missing")

isMissing(Raw) == Raw.Presence = "Missing"

\* Raw->getChild(c)
getChild(Raw, c) == Raw.Layout[c + 1]

\* Raw->replaceChild(c, NewChild): every other child is the same subtree.
RawSyntax_replaceChild(Raw, c, NewChild) ==
  [Raw EXCEPT !.Layout[c + 1] = NewChild]

\* The records a class is generated for: the definitions of a tree
\* category, but for its Any<Category>.
GeneratedNodes ==
  {d \in DefNames :
     /\ \E c \in TreeCategories : isSubClassOf(AllRecords(d), c)
     /\ \A c \in TreeCategories : d # "Any" \o c}

\* The generated classes: per node, what the interface run declares and
\* what the implementation run defines.
GeneratedProgram ==
  [n \in GeneratedNodes |->
     [Class |-> printSyntaxInterface(AllRecords(n)),
      Api   |-> printSyntaxImplementation(AllRecords(n)).Methods,
      Data  |-> printSyntaxDataImplementation(AllRecords(n))]]

\* Cursor::<ChildName> of a node's class: its place in the enum the class
\* declaration lists, from zero.
CursorValue(n, ChildName) ==
  LET Enum == prog[n].Class.Cursor
  IN (CHOOSE i \in 1..Len(Enum) : Enum[i] = ChildName) - 1

\* One printed assertion on a raw value.
EvalAssertion(a, Raw) ==
  CASE a.Check = "assert_token_kind" -> Raw.TokenKind = a.Kind
    [] a.Check = "syntax_assert_token_is" ->
         Raw.TokenKind = a.Kind /\ Raw.Text = a.Text
    [] a.Check = "assert_child_kind" -> Raw.Kind = a.Kind

\* The generated constructor: the first assertion that fails, or "".
CtorFailure(n, Raw) ==
  LET d == prog[n].Data
  IN CASE Raw.Kind # d.AssertKind -> "kind"
       [] Raw.Kind = d.AssertKind /\ Len(Raw.Layout) # d.AssertLayoutSize ->
            "layout size"
       [] OTHER ->
            LET bad == {k \in 1..Len(d.ChildAsserts) :
                          ~EvalAssertion(d.ChildAsserts[k],
                                         getChild(Raw, CursorValue(n, d.ChildAsserts[k].Var)))}
            IN IF bad = {} THEN ""
               ELSE d.ChildAsserts[CHOOSE k \in bad : \A j \in bad : k <= j].Check

\* The printed accessor and updater of a slot.
GetterOf(n, ChildName) ==
  prog[n].Api[CHOOSE i \in 1..Len(prog[n].Api) :
                prog[n].Api[i].Method = "get" /\ prog[n].Api[i].Slot = ChildName]

SetterOf(n, ChildName) ==
  prog[n].Api[CHOOSE i \in 1..Len(prog[n].Api) :
                prog[n].Api[i].Method = "with" /\ prog[n].Api[i].Slot = ChildName]

\* The members a generated class keeps its realized children in: the ones
\* its accessors name.
CacheFields(Type) ==
  IF Type \in DOMAIN prog
  THEN {prog[Type].Api[i].ChildPtr :
          i \in {j \in 1..Len(prog[Type].Api) : prog[Type].Api[j].Method = "get"}}
  ELSE {}

\* A SyntaxData object as its constructor leaves it.
SyntaxData(Type, Raw, Parent, IndexInParent, FromBlank) ==
  [Type |-> Type, Raw |-> Raw, Parent |-> Parent,
   IndexInParent |-> IndexInParent,
   Cache |-> [f \in CacheFields(Type) |-> 0],
   Built |-> TRUE, FromBlank |-> FromBlank]

Free == [Type |-> "<free>"]

\* The raw tree makeBlank() builds.
BlankRaw(n) ==
  LET d == prog[n].Data
  IN RawSyntax_make(
       d.BlankKind,
       [k \in 1..Len(d.BlankLayout) |->
          IF d.BlankLayout[k].Make = "missingToken"
          THEN TokenSyntax_missingToken(d.BlankLayout[k].Kind, d.BlankLayout[k].Text)
          ELSE RawSyntax_missing(d.BlankLayout[k].Kind)],
       d.BlankPresence)

None == [Type |-> "<none>"]

\* What get<Child>() returns on an object no thread is realizing: absent,
\* or a handle on the child realized from the raw child.
GetterOutcome(Data, ChildName) ==
  LET g == GetterOf(Data.Type, ChildName)
      RawChild == getChild(Data.Raw, CursorValue(Data.Type, g.RawChildCursor))
  IN IF isMissing(RawChild) THEN None
     ELSE [Type |-> g.Construct,
           Child |-> [Type |-> g.Realize, Raw |-> RawChild,
                      IndexInParent |-> CursorValue(Data.Type, g.IndexCursor)]]

-----------------------------------------------------------------------------
(* A program that builds trees with the generated factories and updaters.  *)
(* A failed assertion ends the program: nothing is enabled after it.       *)

MaxData == 2

Presences == {"Present", "Missing"}

\* A token kind no slot of the schema asks for.
OtherTokenKind == "eof"

OtherText == "x"

\* The raw values tried for a slot: for a token slot, tokens of the slot's
\* kind or another, with the slot's spelling or another, present or
\* missing; for a node slot, a node of the slot's type, present or missing,
\* and the missing node makeBlank() puts there.
SlotCandidates(Child) ==
  LET ChildType == getLayoutNodeType(Child)
      ChildRec == getLayoutNodeRecord(Child)
  IN IF isToken(ChildType)
     THEN {TokenSyntax_make(k, t, p) :
             k \in {getValueAsString(ChildRec, "Kind"), OtherTokenKind},
             t \in {getValueAsString(ChildRec, "Spelling"), OtherText},
             p \in Presences}
     ELSE {RawSyntax_make(ChildType, <<>>, "Present"),
           RawSyntax_missing(ChildType),
           RawSyntax_missing(getMissingSyntaxKind(Child))}

\* The arguments with<Child>() can be called with: an RC<TokenSyntax> for
\* a token slot, a handle of the slot's type (whose raw node is of that
\* kind) for a node slot.
Replacements(Child) ==
  LET ChildType == getLayoutNodeType(Child)
  IN IF isToken(ChildType) THEN SlotCandidates(Child)
     ELSE {v \in SlotCandidates(Child) : v.Kind = ChildType}

\* The layouts of n children drawn from the candidates of the first n slots.
RECURSIVE Layouts(_, _)
Layouts(Children, n) ==
  IF n = 0 THEN {<<>>}
  ELSE {Append(l, v) : l \in Layouts(Children, n - 1),
                       v \in SlotCandidates(Children[n])}

\* The raw trees make() is handed: of the node's kind, with a candidate in
\* every slot, or one child short.
HandBuilt(n) ==
  LET Children == getChildrenOf(AllRecords(n))
  IN {RawSyntax_make(n, l, "Present") : l \in Layouts(Children, Len(Children))}
     \cup {RawSyntax_make(n, SubSeq(BlankRaw(n).Layout, 2, Len(Children)),
                          "Present")}

Alive == op.Failed = ""

FreeCells == {i \in 1..Len(heap) : heap[i] = Free}

AllocIndex ==
  IF FreeCells = {} THEN Len(heap) + 1
  ELSE CHOOSE i \in FreeCells : \A j \in FreeCells : i <= j

CanAlloc == AllocIndex <= MaxData

Store(d) ==
  IF AllocIndex = Len(heap) + 1 THEN Append(heap, d)
  ELSE [heap EXCEPT ![AllocIndex] = d]

\* <Node>Data::make(Raw, Parent, IndexInParent): the constructor runs.
make(n, Raw, FromBlank, name, recv, slot, arg) ==
  LET f == CtorFailure(n, Raw)
  IN /\ op' = [Name |-> name, Node |-> n, Recv |-> recv, Slot |-> slot,
               Arg |-> arg, Result |-> IF f = "" THEN AllocIndex ELSE 0,
               Failed |-> f,
               Pre |-> IF recv = 0 THEN Free ELSE heap[recv]]
     /\ heap' = IF f = "" THEN Store(SyntaxData(n, Raw, 0, 0, FromBlank))
                ELSE heap

\* <Node>Data::makeBlank()
makeBlank ==
  /\ Alive
  /\ CanAlloc
  /\ \E n \in GeneratedNodes :
       make(n, BlankRaw(n), TRUE, "makeBlank", 0, "", BlankRaw(n))
  /\ UNCHANGED <<prog, thr, genVars, catVars>>

\* <Node>Data::make on a raw tree built by hand.
makeFromRaw ==
  /\ Alive
  /\ CanAlloc
  /\ \E n \in GeneratedNodes :
       \E Raw \in HandBuilt(n) :
         make(n, Raw, FALSE, "make", 0, "", Raw)
  /\ UNCHANGED <<prog, thr, genVars, catVars>>

\* Data->replaceChild<T>(RawChild, Cursor): the receiver's raw tree with
\* that child replaced, wrapped as a T.
replaceChild(h, T, RawChild, c, slot) ==
  make(T, RawSyntax_replaceChild(heap[h].Raw, c, RawChild),
       heap[h].FromBlank, "with", h, slot, RawChild)

\* <Node>::with<Child>(NewChild) on the object in cell h.
with ==
  /\ Alive
  /\ CanAlloc
  /\ \E h \in 1..Len(heap) :
       /\ heap[h] # Free
       /\ LET n == heap[h].Type
              Children == getChildrenOf(AllRecords(n))
          IN \E k \in 1..Len(Children) :
               \E V \in Replacements(Children[k]) :
                 LET m == SetterOf(n, Children[k].Name)
                 IN IF \E i \in 1..Len(m.Asserts) : ~EvalAssertion(m.Asserts[i], V)
                    THEN /\ op' = [Name |-> "with", Node |-> n,
                                   Recv |-> h, Slot |-> Children[k].Name,
                                   Arg |-> V, Result |-> 0,
                                   Failed |-> "token assertion",
                                   Pre |-> heap[h]]
                         /\ heap' = heap
                    ELSE replaceChild(h, m.ReplaceChild, V,
                                      CursorValue(n, m.ReplaceCursor),
                                      Children[k].Name)
  /\ UNCHANGED <<prog, thr, genVars, catVars>>

\* The last handle on the object in cell h goes away.
release ==
  /\ Alive
  /\ \E h \in 1..Len(heap) :
       /\ heap[h] # Free
       /\ heap' = [heap EXCEPT ![h] = Free]
       /\ op' = [NoOp EXCEPT !.Name = "release", !.Recv = h]
  /\ UNCHANGED <<prog, thr, genVars, catVars>>

\* The program starts with the generated classes and no object.
DataInit ==
  /\ prog = GeneratedProgram
  /\ heap = <<>>
  /\ op = NoOp
  /\ thr = <<>>
  /\ pc = "off"
  /\ Action = "None"
  /\ Category = ""
  /\ OS = <<>>
  /\ errs = <<>>
  /\ exitCode = 0
  /\ todo = <<>>
  /\ Out = [a \in {"GenImplementation", "GenInterface"} |-> NoDoc]
  /\ Def = Rec("Node", <<>>, <<>>)
  /\ resolved = <<>>

DataNext ==
  \/ makeBlank
  \/ makeFromRaw
  \/ with
  \/ release

SpecData == DataInit /\ [][DataNext]_vars

-----------------------------------------------------------------------------
(* Properties of the generated factories and updaters.                     *)

\* The slot record of a node's child, and its place among the children.
ChildOf(n, ChildName) ==
  LET Children == getChildrenOf(AllRecords(n))
  IN Children[CHOOSE k \in 1..Len(Children) : Children[k].Name = ChildName]

SlotOrdinal(n, ChildName) ==
  CHOOSE k \in 1..Len(ChildNames(n)) : ChildNames(n)[k] = ChildName

IsTokenSlot(Child) == isToken(getLayoutNodeType(Child))

\* The constraint of a token slot: its kind, and its spelling when the
\* token set is closed (the token is not identifier-like).
RequiredKind(Child) == getValueAsString(getLayoutNodeRecord(Child), "Kind")

RequiredSpelling(Child) == getValueAsString(getLayoutNodeRecord(Child), "Spelling")

IsClosedSet(Child) == ~isIdentifier(getLayoutNodeType(Child))

TokenMismatch(Child, Tok) ==
  \/ Tok.TokenKind # RequiredKind(Child)
  \/ IsClosedSet(Child) /\ Tok.Text # RequiredSpelling(Child)

\* The missing-placeholder table.
MissingKindTable ==
  [c \in {"Decl", "Expr", "Stmt", "Type", "Pattern", "SyntaxCollection"} |->
     "Missing" \o c]

\* Raw is the placeholder prescribed for the slot.
IsPlaceholderOf(Child, Raw) ==
  IF IsTokenSlot(Child)
  THEN /\ Raw.Kind = "Token"
       /\ isMissing(Raw)
       /\ Raw.TokenKind = RequiredKind(Child)
       /\ (IsClosedSet(Child) => Raw.Text = RequiredSpelling(Child))
  ELSE /\ getSyntaxCategory(getLayoutNodeRecord(Child)) \in DOMAIN MissingKindTable
       /\ Raw = RawSyntax_missing(
                  MissingKindTable[getSyntaxCategory(getLayoutNodeRecord(Child))])

\* C3: makeBlank() never fails a constructor assertion, and neither does
\* with<Slot>() with a valid replacement on an object built by makeBlank()
\* and such updates only.
C3_FactoryTreesPassAssertions ==
  /\ op.Name = "makeBlank" => op.Failed = ""
  /\ ( /\ op.Name = "with"
       /\ op.Pre.FromBlank
       /\ (IsTokenSlot(ChildOf(op.Node, op.Slot))
             => ~TokenMismatch(ChildOf(op.Node, op.Slot), op.Arg)) )
     => op.Failed = ""

\* C4: makeBlank() of any node yields an object of that node whose raw
\* children are, in slot order, the prescribed placeholders, and every
\* accessor of which returns absent.
C4_BlankHoldsPlaceholders ==
  op.Name = "makeBlank" =>
    /\ op.Failed = ""
    /\ op.Result # 0
    /\ heap[op.Result].Type = op.Node
    /\ LET Children == getChildrenOf(AllRecords(op.Node))
           Layout == heap[op.Result].Raw.Layout
       IN /\ Len(Layout) = Len(Children)
          /\ \A k \in 1..Len(Children) :
               /\ IsPlaceholderOf(Children[k], Layout[k])
               /\ GetterOutcome(heap[op.Result], Children[k].Name) = None

\* What all readings of the update law share: the receiver is as it was,
\* the result is of the receiver's node type, its raw tree holds the
\* replacement in the slot and the receiver's children everywhere else.
UpdateIsLocal ==
  /\ heap[op.Recv] = op.Pre
  /\ heap[op.Result].Type = op.Pre.Type
  /\ heap[op.Result].Raw.Kind = op.Pre.Raw.Kind
  /\ Len(heap[op.Result].Raw.Layout) = Len(op.Pre.Raw.Layout)
  /\ \A k \in 1..Len(op.Pre.Raw.Layout) :
       heap[op.Result].Raw.Layout[k] =
         IF k = SlotOrdinal(op.Node, op.Slot) THEN op.Arg
         ELSE op.Pre.Raw.Layout[k]

\* The replacement handed to the last with<S>() is valid for S: for a token
\* slot a token that meets the slot's constraint, for a node slot a node of
\* the slot's type.
ValidReplacement ==
  IF IsTokenSlot(ChildOf(op.Node, op.Slot))
  THEN ~TokenMismatch(ChildOf(op.Node, op.Slot), op.Arg)
  ELSE op.Arg.Kind = getLayoutNodeType(ChildOf(op.Node, op.Slot))

\* C2, as amended: H.with<S>(V) with a valid V returns a handle; H and its
\* raw tree are unchanged, the result is of H's node type and shares every
\* other child with H, and get<S>() on the result returns a handle on V
\* when V is present and absent when V is a missing token or node.
C2_UpdateLaw ==
  (op.Name = "with" /\ ValidReplacement) =>
    /\ op.Failed = ""
    /\ op.Result # 0
    /\ UpdateIsLocal
    /\ IF isMissing(op.Arg)
       THEN GetterOutcome(heap[op.Result], op.Slot) = None
       ELSE /\ GetterOutcome(heap[op.Result], op.Slot) # None
            /\ GetterOutcome(heap[op.Result], op.Slot).Child.Raw = op.Arg

\* An update of a node-typed slot of an IfStmt with a present node.
C2_Witness ==
  /\ op.Name = "with"
  /\ op.Failed = ""
  /\ op.Node = "IfStmt"
  /\ op.Slot = "Condition"
  /\ ~isMissing(op.Arg)
  /\ heap[op.Result].Raw.Layout[2] = op.Arg
  /\ heap[op.Recv].Raw.Layout[2] # op.Arg

\* C2, as stated: get<S>() on the result equals V for every valid V.
C2_UpdateLawAsStated ==
  (op.Name = "with" /\ ValidReplacement) =>
    /\ op.Failed = ""
    /\ op.Result # 0
    /\ UpdateIsLocal
    /\ GetterOutcome(heap[op.Result], op.Slot) # None
    /\ GetterOutcome(heap[op.Result], op.Slot).Child.Raw = op.Arg

\* C5: with<S>(V) on a token slot fails its assertion, and yields no
\* object, whenever V's kind is not the slot's or, for a closed token set,
\* V's spelling is not the slot's; on an identifier-like slot a token of
\* the slot's kind passes whatever its spelling.
C5_InvalidTokenUpdateFails ==
  (op.Name = "with" /\ IsTokenSlot(ChildOf(op.Node, op.Slot))) =>
    /\ TokenMismatch(ChildOf(op.Node, op.Slot), op.Arg)
         => /\ op.Failed = "token assertion"
            /\ op.Result = 0
            /\ heap[op.Recv] = op.Pre
    /\ ( /\ ~IsClosedSet(ChildOf(op.Node, op.Slot))
         /\ op.Arg.TokenKind = RequiredKind(ChildOf(op.Node, op.Slot)) )
         => op.Failed = ""

\* An update of a closed-set slot with a token of the right kind and the
\* wrong spelling has failed.
C5_Witness ==
  /\ op.Name = "with"
  /\ op.Slot = "BreakKeyword"
  /\ op.Arg.TokenKind = "kw_break"
  /\ op.Arg.Text # "break"
  /\ op.Failed = "token assertion"

-----------------------------------------------------------------------------
(* Threads calling the generated get<Child>() on one object.               *)
(* SyntaxData::realizeSyntaxNode<T>(ChildPtr, RawChild, Parent, Index)     *)
(* loads the cache; when it is empty it builds a T and publishes it with   *)
(* one compare-and-swap, dropping its T when another thread's is there.    *)

NThreads == 2

Threads == 1..NThreads

NoRaw == [Kind |-> "<none>"]

NotCalled == [Type |-> "<not called>"]

Idle == [pc |-> "idle", Slot |-> "", RawChild |-> NoRaw, New |-> 0, Ret |-> NotCalled]

\* The root object the threads share: any the constructor accepts.
RootsOf(n) ==
  {SyntaxData(n, Raw, 0, 0, FALSE) :
     Raw \in {r \in HandBuilt(n) : CtorFailure(n, r) = ""}}

Roots == UNION {RootsOf(n) : n \in GeneratedNodes}

RaceInit ==
  /\ prog = GeneratedProgram
  /\ heap \in {<<d>> : d \in Roots}
  /\ op = NoOp
  /\ thr = [t \in Threads |-> Idle]
  /\ pc = "off"
  /\ Action = "None"
  /\ Category = ""
  /\ OS = <<>>
  /\ errs = <<>>
  /\ exitCode = 0
  /\ todo = <<>>
  /\ Out = [a \in {"GenImplementation", "GenInterface"} |-> NoDoc]
  /\ Def = Rec("Node", <<>>, <<>>)
  /\ resolved = <<>>

RaceFrame == UNCHANGED <<prog, op, genVars, catVars>>

\* The accessor a thread is in, as printed.
GetterIn(t) == GetterOf(heap[1].Type, thr[t].Slot)

\* get<Child>() up to the call of realizeSyntaxNode: the raw child is read
\* and, when it is missing, llvm::None is returned.
getEnter(t) ==
  /\ thr[t].pc = "idle"
  /\ \E i \in 1..Len(prog[heap[1].Type].Api) :
       LET g == prog[heap[1].Type].Api[i]
           RawChild == getChild(heap[1].Raw, CursorValue(heap[1].Type, g.RawChildCursor))
       IN /\ g.Method = "get"
          /\ thr' = [thr EXCEPT ![t] =
                       IF isMissing(RawChild)
                       THEN [Idle EXCEPT !.Slot = g.Slot, !.Ret = None]
                       ELSE [pc |-> "load", Slot |-> g.Slot, RawChild |-> RawChild,
                             New |-> 0, Ret |-> NotCalled]]
  /\ UNCHANGED heap
  /\ RaceFrame

\* realizeSyntaxNode: the atomic load of the cache.
realizeLoad(t) ==
  /\ thr[t].pc = "load"
  /\ thr' = [thr EXCEPT ![t].pc =
               IF heap[1].Cache[GetterIn(t).ChildPtr] # 0 THEN "return"
               ELSE "construct"]
  /\ UNCHANGED heap
  /\ RaceFrame

\* realizeSyntaxNode: the child object is allocated, its constructor not
\* yet over.
realizeConstruct(t) ==
  /\ thr[t].pc = "construct"
  /\ LET g == GetterIn(t)
         d == SyntaxData(g.Realize, thr[t].RawChild, 1,
                         CursorValue(heap[1].Type, g.IndexCursor), FALSE)
     IN heap' = Store([d EXCEPT !.Built = FALSE])
  /\ thr' = [thr EXCEPT ![t].pc = "built", ![t].New = AllocIndex]
  /\ RaceFrame

\* realizeSyntaxNode: the constructor of the child object is over.
realizeBuilt(t) ==
  /\ thr[t].pc = "built"
  /\ heap' = [heap EXCEPT ![thr[t].New].Built = TRUE]
  /\ thr' = [thr EXCEPT ![t].pc = "publish"]
  /\ RaceFrame

\* realizeSyntaxNode: the compare-and-swap; the loser's object is dropped.
realizePublish(t) ==
  /\ thr[t].pc = "publish"
  /\ heap' = IF heap[1].Cache[GetterIn(t).ChildPtr] = 0
             THEN [heap EXCEPT ![1].Cache[GetterIn(t).ChildPtr] = thr[t].New]
             ELSE [heap EXCEPT ![thr[t].New] = Free]
  /\ thr' = [thr EXCEPT ![t].pc = "return", ![t].New = 0]
  /\ RaceFrame

\* get<Child>(): the handle returned after realizeSyntaxNode.
getReturn(t) ==
  /\ thr[t].pc = "return"
  /\ thr' = [thr EXCEPT ![t] =
               [Idle EXCEPT !.Slot = thr[t].Slot,
                            !.Ret = [Type |-> GetterIn(t).Construct, Root |-> 1,
                                     Data |-> heap[1].Cache[GetterIn(t).ReturnCache]]]]
  /\ UNCHANGED heap
  /\ RaceFrame

RaceNext ==
  \E t \in Threads :
    \/ getEnter(t)
    \/ realizeLoad(t)
    \/ realizeConstruct(t)
    \/ realizeBuilt(t)
    \/ realizePublish(t)
    \/ getReturn(t)

SpecRace == RaceInit /\ [][RaceNext]_vars

-----------------------------------------------------------------------------
(* Properties of the generated accessors.                                  *)

\* The per-slot cache of the root object.
SlotCache(ChildName) == heap[1].Cache["Cached" \o ChildName]

Returned(t) == thr[t].pc = "idle" /\ thr[t].Ret \notin {NotCalled, None}

\* The objects a thread has built, or is building, and not yet published.
Unpublished == {thr[t].New : t \in {u \in Threads : thr[u].New # 0}}

\* C1: at every moment of the race the cache of a slot is empty or holds a
\* fully built child; every call that has returned a child has returned
\* the one the cache holds, so all threads hold the same one; and an
\* object that lost the publication is gone: it is in no cache, in no
\* returned handle, and not left in the heap.
C1_OnePublishedChild ==
  /\ \A f \in DOMAIN heap[1].Cache :
       heap[1].Cache[f] # 0 =>
         /\ heap[heap[1].Cache[f]] # Free
         /\ heap[heap[1].Cache[f]].Built
         /\ heap[1].Cache[f] \notin Unpublished
  /\ \A t \in Threads :
       Returned(t) =>
         /\ thr[t].Ret.Data # 0
         /\ thr[t].Ret.Data = SlotCache(thr[t].Slot)
         /\ thr[t].Ret.Data \notin Unpublished
  /\ \A t, u \in Threads :
       (Returned(t) /\ Returned(u) /\ thr[t].Slot = thr[u].Slot)
         => thr[t].Ret.Data = thr[u].Ret.Data
  /\ \A i \in 2..Len(heap) :
       heap[i] # Free =>
         \/ i \in Unpublished
         \/ \E f \in DOMAIN heap[1].Cache : heap[1].Cache[f] = i

\* Two threads raced on one slot, both built a child, one was dropped, and
\* both have returned.
C1_Witness ==
  /\ Returned(1)
  /\ Returned(2)
  /\ thr[1].Slot = thr[2].Slot
  /\ thr[1].Ret.Data = thr[2].Ret.Data
  /\ \E i \in 2..Len(heap) : heap[i] = Free

\* Raw stands in the slot as a missing value: a missing token of the slot's
\* kind (and spelling, for a closed set), or a missing node of the slot's
\* type or of its category's missing kind.
HoldsPlaceholder(Child, Raw) ==
  /\ isMissing(Raw)
  /\ IF IsTokenSlot(Child)
     THEN ~TokenMismatch(Child, Raw)
     ELSE \/ Raw.Kind = getLayoutNodeType(Child)
          \/ IsPlaceholderOf(Child, Raw)

\* C9: a call of get<Slot>() that has returned has returned absent exactly
\* when the raw child of the slot is the slot's placeholder, and otherwise
\* a handle of the slot's declared child type on the cached child object,
\* which is of that type, built from that raw child, with the receiver as
\* parent and the slot's ordinal as index in parent.
C9_AccessorResult ==
  \A t \in Threads :
    (thr[t].pc = "idle" /\ thr[t].Ret # NotCalled) =>
      LET Child == ChildOf(heap[1].Type, thr[t].Slot)
          k == SlotOrdinal(heap[1].Type, thr[t].Slot)
      IN /\ thr[t].Ret = None <=> HoldsPlaceholder(Child, heap[1].Raw.Layout[k])
         /\ thr[t].Ret # None =>
              /\ thr[t].Ret.Type = getLayoutNodeType(Child)
              /\ thr[t].Ret.Data = SlotCache(thr[t].Slot)
              /\ heap[thr[t].Ret.Data].Type = getLayoutNodeType(Child)
              /\ heap[thr[t].Ret.Data].Raw = heap[1].Raw.Layout[k]
              /\ heap[thr[t].Ret.Data].Parent = 1
              /\ heap[thr[t].Ret.Data].IndexInParent = k - 1

=============================================================================
